---- MODULE Spec2Model ----
(***************************************************************************)
(* A model of ambry's Library (src/ambry/library/__init__.py): the local   *)
(* cache tier, the remotes, the Catalog of installed datasets, the ledger  *)
(* of file records, and the operations put_bundle, put_partition, get,     *)
(* push, sync_library and sync_remotes.                                    *)
(***************************************************************************)
EXTENDS Integers, Sequences, FiniteSets, TLC

(***************************************************************************)
(* Bounds of the model.                                                    *)
(***************************************************************************)
\* number of Library operations in one behaviour
MaxOps == 1

(***************************************************************************)
(* Strings are sequences of one-character strings, so that the regular     *)
(* expressions of sync_remotes act on the text of a cache key.             *)
(***************************************************************************)
DigitChars == <<"0", "1", "2", "3", "4", "5", "6", "7", "8", "9">>

IsDigit(c) == \E i \in DOMAIN DigitChars : DigitChars[i] = c

DigitVal(c) == (CHOOSE i \in DOMAIN DigitChars : DigitChars[i] = c) - 1

RECURSIVE Dec(_)
\* str(n) for n >= 0
Dec(n) == IF n < 10 THEN <<DigitChars[n + 1]>>
          ELSE Dec(n \div 10) \o <<DigitChars[(n % 10) + 1]>>

RECURSIVE ParseInt(_)
\* int(s) of a non-empty run of digits
ParseInt(s) == IF Len(s) = 1 THEN DigitVal(s[1])
               ELSE 10 * ParseInt(SubSeq(s, 1, Len(s) - 1)) + DigitVal(s[Len(s)])

DotDb == <<".", "d", "b">>

\* the text of s from position i on starts with t
StartsAt(s, i, t) == /\ i + Len(t) - 1 <= Len(s)
                     /\ SubSeq(s, i, i + Len(t) - 1) = t

RECURSIVE DigitRunEnd(_, _)
\* the first position at or after i that holds no digit (\d+ is greedy)
DigitRunEnd(s, i) == IF i <= Len(s) /\ IsDigit(s[i]) THEN DigitRunEnd(s, i + 1) ELSE i

\* The position after a match of -\d+\.\d+\.\d+\.db that starts at i, or 0.
MatchVersionAt(s, i) ==
    IF ~(i <= Len(s) /\ s[i] = "-") THEN 0
    ELSE LET e1 == DigitRunEnd(s, i + 1) IN
      IF e1 = i + 1 \/ ~StartsAt(s, e1, <<".">>) THEN 0
      ELSE LET e2 == DigitRunEnd(s, e1 + 1) IN
        IF e2 = e1 + 1 \/ ~StartsAt(s, e2, <<".">>) THEN 0
        ELSE LET e3 == DigitRunEnd(s, e2 + 1) IN
          IF e3 = e2 + 1 \/ ~StartsAt(s, e3, DotDb) THEN 0
          ELSE e3 + Len(DotDb)

RECURSIVE SubVersion(_, _)
SubVersion(s, i) ==
    IF i > Len(s) THEN <<>>
    ELSE LET e == MatchVersionAt(s, i) IN
         IF e > 0 THEN SubVersion(s, e)
         ELSE <<s[i]>> \o SubVersion(s, i + 1)

\* re.sub(r'-\d+\.\d+\.\d+\.db', '', cache_key): the key without the version
NvKey(cache_key) == SubVersion(cache_key, 1)

RECURSIVE DigitRunStart(_, _)
\* the first position of the run of digits that ends at position i
DigitRunStart(s, i) == IF i >= 1 /\ IsDigit(s[i]) THEN DigitRunStart(s, i - 1) ELSE i + 1

NoVersion == -1

\* int(re.search(r'(\d+)\.db$', cache_key).group(1)); NoVersion when the
\* search finds nothing (the AttributeError of the code).
KeyVersion(cache_key) ==
    LET n == Len(cache_key) - Len(DotDb) IN
    IF n >= 1 /\ StartsAt(cache_key, n + 1, DotDb) /\ IsDigit(cache_key[n])
    THEN ParseInt(SubSeq(cache_key, DigitRunStart(cache_key, n), n))
    ELSE NoVersion


(***************************************************************************)
(* Identities.  An artifact is a bundle (part = <<>>) or a partition of a  *)
(* bundle; its vid is the record itself.  A ref is a vid or a bare dataset *)
(* id (ver = <<>>).                                                        *)
(***************************************************************************)
Art(n, v, p) == [name |-> n, ver |-> v, part |-> p]

NoArt == Art(<<>>, <<>>, <<>>)

A100 == Art(<<"a">>, <<1, 0, 0>>, <<>>)
A101 == Art(<<"a">>, <<1, 0, 1>>, <<>>)
A200 == Art(<<"a">>, <<2, 0, 0>>, <<>>)
B100 == Art(<<"b">>, <<1, 0, 0>>, <<>>)
P101 == Art(<<"a">>, <<1, 0, 1>>, <<"p">>)

Bundles == {A100, A101, A200, B100}

Partitions == {P101}

Artifacts == Bundles \cup Partitions

IsBundle(a) == a \in Bundles

\* the bundle that owns a partition
BundleOf(p) == Art(p.name, p.ver, <<>>)

\* bundle.partitions
PartsOf(b) == {p \in Partitions : BundleOf(p) = b}

\* a bare dataset id
IdRef(n) == Art(n, <<>>, <<>>)

Ids == {IdRef(b.name) : b \in Bundles}

Refs == Artifacts \cup Ids

\* <name>-<MAJOR>.<MINOR>.<PATCH>.db, and <name>-<MAJOR>.<MINOR>.<PATCH>/<part>.db
\* for a partition
CacheKey(a) ==
    LET vname == a.name \o <<"-">> \o Dec(a.ver[1]) \o <<".">> \o Dec(a.ver[2])
                        \o <<".">> \o Dec(a.ver[3])
    IN IF a.part = <<>> THEN vname \o DotDb
       ELSE vname \o <<"/">> \o a.part \o DotDb

\* revisions compare as MAJOR.MINOR.PATCH
RevLess(v, w) == \/ v[1] < w[1]
                 \/ v[1] = w[1] /\ v[2] < w[2]
                 \/ v[1] = w[1] /\ v[2] = w[2] /\ v[3] < w[3]

(***************************************************************************)
(* The tiers.  The local cache has the repo_id Local; RemoteOrder is the   *)
(* order of self.remotes.values().                                         *)
(***************************************************************************)
Local == "local"

RemoteOrder == <<"r1", "r2">>

Remotes == {RemoteOrder[i] : i \in DOMAIN RemoteOrder}

Sources == {Local} \cup Remotes

NoRemote == "none"

\* the first remote of the sequence rs that is in the set S, or NoRemote
FirstRemote(rs, S) ==
    IF \E i \in DOMAIN rs : rs[i] \in S
    THEN rs[CHOOSE i \in DOMAIN rs : rs[i] \in S /\ \A j \in 1..(i - 1) : rs[j] \notin S]
    ELSE NoRemote

(***************************************************************************)
(* The ledger: file records (ref, type, source, state).                    *)
(***************************************************************************)
TypeBundle == "bundle"
TypePartition == "partition"
TypeRemote == "remote"

States == {"new", "installed", "pushed"}

File(ref, type, source, state) ==
    [ref |-> ref, type |-> type, source |-> source, state |-> state]

\* A ledger that writes the given state over the record it has: the ledger the
\* monotonicity of the states does not hold of.
InstallFileMerge(fs, ref, type, source, state) ==
    {f \in fs : ~(f.ref = ref /\ f.type = type /\ f.source = source)}
        \cup {File(ref, type, source, state)}

\* A record is created when the artifact is first installed from a source;
\* a later install of the same (ref, type, source) leaves the record as it is.
InstallFile(fs, ref, type, source, state) ==
    IF \E f \in fs : f.ref = ref /\ f.type = type /\ f.source = source
    THEN fs
    ELSE fs \cup {File(ref, type, source, state)}

install_bundle_file(fs, b, source, state) == InstallFile(fs, b, TypeBundle, source, state)

install_partition_file(fs, p, source, state) == InstallFile(fs, p, TypePartition, source, state)

\* files.query.installed: the records of the bundle and partition types
InstalledFiles(fs) == {f \in fs : f.type \in {TypeBundle, TypePartition}}

(***************************************************************************)
(* The Catalog: the installed datasets, in insertion order.                *)
(***************************************************************************)
Range(s) == {s[i] : i \in DOMAIN s}

\* database.install_bundle: the dataset and its partition records
install_bundle(ds, b) == IF b \in Range(ds) THEN ds ELSE Append(ds, b)

Ident(d, p) == [ds |-> d, part |-> p]

NotResolved == Ident(NoArt, NoArt)

\* the installed dataset of the highest revision among those with the id
LatestOf(ds, name) ==
    LET c == {b \in Range(ds) : b.name = name}
    IN IF c = {} THEN NoArt
       ELSE CHOOSE b \in c : \A o \in c : o = b \/ RevLess(o.ver, b.ver)

\* what an operation that returns nothing to tell of has as its result
Ok == "ok"

\* the name of a dataset: the datasets of the two ids have one name
NameOf(b) == <<"n">>

\* refs that are names: the name of the datasets, and a name of none
NameRefs == {IdRef(<<"n">>), IdRef(<<"m">>)}

\* a ref that is no name and no object number
Junk == IdRef(<<"?">>)

\* the ids of the datasets that have the name
IdsNamed(ds, ref) == {b.name : b \in {d \in Range(ds) : NameOf(d) = ref.name}}

\* A resolver that does not tell when a name is of several datasets.
resolve_ref_quiet(ds, ref) == IF ref = Junk THEN "NotObjectNumberError" ELSE Ok

\* what resolver.resolve_ref_one raises, or Ok
resolve_ref_raises(ds, ref) ==
    IF ref = Junk THEN "NotObjectNumberError"
    ELSE IF ref \in NameRefs /\ Cardinality(IdsNamed(ds, ref)) > 1 THEN "MultipleFoundError"
    ELSE Ok

\* resolver.resolve_ref_one: a vid resolves to itself, a partition vid to its
\* dataset and the partition, a bare id to the highest revision of the id, a
\* name to the highest revision of the one id that has it.
resolve_ref_one(ds, ref) ==
    IF ref \in NameRefs
    THEN IF Cardinality(IdsNamed(ds, ref)) = 1
         THEN Ident(LatestOf(ds, CHOOSE n \in IdsNamed(ds, ref) : TRUE), NoArt)
         ELSE NotResolved
    ELSE IF ref \in Ids
    THEN LET b == LatestOf(ds, ref.name)
         IN IF b = NoArt THEN NotResolved ELSE Ident(b, NoArt)
    ELSE IF ref \in Bundles /\ ref \in Range(ds) THEN Ident(ref, NoArt)
    ELSE IF ref \in Partitions /\ BundleOf(ref) \in Range(ds) THEN Ident(BundleOf(ref), ref)
    ELSE NotResolved

\* Library.resolve(ref) with the default location, of which ds are the rows
resolve(ds, ref) == resolve_ref_one(ds, ref)

NotFound == "NotFoundError"

\* LocationRef.LOCATION.SOURCE; LIBRARY, PARTITION and REMOTE are the types of
\* the ledger (line 1007)
LocSource == "source"

LibraryScopes == {TypeBundle, TypePartition, TypeRemote}

\* A default location that has every scope.
EveryLocation == LibraryScopes \cup {LocSource}

\* lines 740-742: the location of resolve when none is given
DefaultLocation == LibraryScopes

\* the location resolve_ref_one takes when it is given none (push, line 921)
ResolverLocation == LibraryScopes

\* the rows of the Catalog a query restricted to the location sees: ds the
\* datasets of the scopes LIBRARY, PARTITION, REMOTE, srcs those of SOURCE
Scoped(ds, srcs, location) ==
    (IF location \cap LibraryScopes # {} THEN ds ELSE <<>>)
        \o (IF LocSource \in location
            THEN CHOOSE q \in [1..Cardinality(srcs) -> srcs] : Range(q) = srcs
            ELSE <<>>)

\* Library.resolve(ref, location)
resolve_at(ds, srcs, ref, location) == resolve_ref_one(Scoped(ds, srcs, location), ref)

\* Library.resolve(ref, location), lines 737-760: res is what it raises, or Ok
\* with the identity it returns, NotResolved being None
resolve_result(ds, srcs, ref, location) ==
    LET raised == resolve_ref_raises(Scoped(ds, srcs, location), ref)
    IN IF raised = "NotObjectNumberError" THEN [res |-> Ok, ident |-> NotResolved]
       ELSE IF raised # Ok THEN [res |-> raised, ident |-> NotResolved]
       ELSE [res |-> Ok, ident |-> resolve_at(ds, srcs, ref, location)]

\* self.resolver.resolve_ref_one(ref) of push
push_resolve(ds, srcs, ref) == resolve_ref_one(Scoped(ds, srcs, ResolverLocation), ref)

\* A dataset() whose query has no order_by: the first row of the id, in
\* insertion order.
dataset_unordered(ds, ref) ==
    IF ref \in Range(ds) THEN ref
    ELSE LET c == {i \in DOMAIN ds : ds[i].name = ref.name /\ ref \in Ids}
         IN IF c = {} THEN NoArt
            ELSE ds[CHOOSE i \in c : \A j \in c : i <= j]

\* Library.dataset: the dataset with the vid, else the first of the datasets
\* with that id ordered by revision, descending
dataset(ds, ref) ==
    IF ref \in Range(ds) THEN ref
    ELSE LET c == {i \in DOMAIN ds : ds[i].name = ref.name /\ ref \in Ids}
         IN IF c = {} THEN NoArt
            ELSE ds[CHOOSE i \in c : \A j \in c : j = i \/ RevLess(ds[j].ver, ds[i].ver)]


(***************************************************************************)
(* The state of a Library.                                                 *)
(***************************************************************************)
VARIABLES
    cache,      \* the cache keys the local tier has, as the artifacts they name
    remote,     \* remote -> its listing, in the order of remote.list().keys()
    datasets,   \* the Catalog: the installed dataset vids, in insertion order
    files,      \* the ledger: the file records
    last,       \* what the last operation was given, did and returned
    ops,        \* the number of operations so far
    gets,       \* the gets of one partition that run at the same time
    sources,    \* the Catalog: the dataset vids recorded in the SOURCE scope
    index       \* the search index of the Library, and its writer

vars == <<cache, remote, datasets, files, last, ops, gets, sources, index>>

\* cache, Catalog and ledger, as the operations pass them on
St(c, ds, fs) == [cache |-> c, ds |-> ds, files |-> fs]

NoFault == "none"

\* op: the operation; ref: the ref it was given (of a sync, the artifact that
\* met the fault); up: the source, upstream or remotes it was given; flag: its
\* force, exists, dry_run, clean (sync_library) or last_only (sync_remotes);
\* clean: a sync that was asked to clean first; order: the order a push of all
\* new records took the refs in
Last(op, ref, up, flag, res, puts, reads, done, fault) ==
    [op |-> op, ref |-> ref, up |-> up, flag |-> flag, res |-> res, puts |-> puts,
     reads |-> reads, done |-> done, fault |-> fault, clean |-> FALSE, order |-> <<>>]

\* a Library and its remotes
Lib(c, rem, ds, fs, l) == [cache |-> c, remote |-> rem, ds |-> ds, files |-> fs, last |-> l]

Now == Lib(cache, remote, datasets, files, last)

StOf(L) == St(L.cache, L.ds, L.files)

\* the Library after an operation that left st and the upstream listings rem
After(st, rem, l) == Lib(st.cache, rem, st.ds, st.files, l)

\* one operation of the Library
Step(L) ==
    /\ cache' = L.cache
    /\ remote' = L.remote
    /\ datasets' = L.ds
    /\ files' = L.files
    /\ last' = L.last
    /\ ops' = ops + 1
    /\ gets' = gets
    /\ sources' = sources
    /\ index' = index

(***************************************************************************)
(* put_partition and put_bundle                                            *)
(***************************************************************************)
\* A put_partition that does not read its source.
put_partition_local(st, p, source, file_state, exists) ==
    [st EXCEPT !.files = install_partition_file(st.files, p, Local, file_state),
               !.cache = IF p \notin st.cache /\ exists THEN st.cache \cup {p}
                         ELSE st.cache]

\* Library.put_partition; exists is os.path.exists(partition.database.path)
put_partition(st, p, source, file_state, exists) ==
    [st EXCEPT !.files = install_partition_file(st.files, p, source, file_state),
               !.cache = IF p \notin st.cache /\ exists THEN st.cache \cup {p}
                         ELSE st.cache]

RECURSIVE PutPartitions(_, _, _, _, _)
\* for p in bundle.partitions.all: self.put_partition(p, source, ...)
PutPartitions(st, ps, source, file_state, exists) ==
    IF ps = {} THEN st
    ELSE LET p == CHOOSE q \in ps : TRUE
         IN PutPartitions(put_partition(st, p, source, file_state, exists),
                          ps \ {p}, source, file_state, exists)

\* the bundle has a file record of the bundle type, whatever its source
HasBundleFile(fs, b) == \E f \in fs : f.ref = b /\ f.type = TypeBundle

\* A put_bundle that does not copy the file of the bundle in.
put_bundle_no_copy(st, b, source, install_partitions, file_state, force, exists) ==
    IF ~force /\ HasBundleFile(st.files, b) THEN st
    ELSE LET st1 == [st EXCEPT !.ds = install_bundle(st.ds, b),
                               !.files = install_bundle_file(st.files, b, source, file_state)]
         IN IF install_partitions
            THEN PutPartitions(st1, PartsOf(b), source, file_state, exists)
            ELSE st1

\* A put_bundle that does not look for the record of the bundle.
put_bundle_again(st, b, source, install_partitions, file_state, force, exists) ==
    LET st1 == [st EXCEPT !.ds = install_bundle(st.ds, b),
                          !.files = install_bundle_file(st.files, b, source, file_state)]
        st2 == IF install_partitions
               THEN PutPartitions(st1, PartsOf(b), source, file_state, exists)
               ELSE st1
    IN [st2 EXCEPT !.cache = st2.cache \cup {b}]

\* Library.put_bundle, when database.install_bundle does not raise
put_bundle(st, b, source, install_partitions, file_state, force, exists) ==
    IF ~force /\ HasBundleFile(st.files, b) THEN st
    ELSE LET st1 == [st EXCEPT !.ds = install_bundle(st.ds, b),
                               !.files = install_bundle_file(st.files, b, source, file_state)]
             st2 == IF install_partitions
                    THEN PutPartitions(st1, PartsOf(b), source, file_state, exists)
                    ELSE st1
         IN [st2 EXCEPT !.cache = st2.cache \cup {b}]

\* the default of the parameter file_state of put_bundle and put_partition
DefaultFileState == "installed"

\* put_bundle(bundle), every other argument at its default; the file of each
\* partition is there
put_bundle_default(st, b) == put_bundle(st, b, Local, TRUE, DefaultFileState, FALSE, TRUE)

\* what database.install_bundle may raise
PutErrors == {"NotABundle", "ConflictError", "Exception"}

\* put_bundle reaches database.install_bundle, where err is raised
PutRaises(st, b, force, err) ==
    /\ err \in PutErrors
    /\ force \/ ~HasBundleFile(st.files, b)
    /\ err = "ConflictError" => b \in Range(st.ds)

\* what put_bundle returns or raises: "False" is the (path, False) of line 245
put_bundle_returns(st, b, force, err) ==
    IF err # NoFault THEN err
    ELSE IF ~force /\ HasBundleFile(st.files, b) THEN "False"
    ELSE Ok

DoPutBundle(L, b, source, install_partitions, file_state, force, exists, err) ==
    After(IF err = NoFault
          THEN put_bundle(StOf(L), b, source, install_partitions, file_state, force, exists)
          ELSE StOf(L),
          L.remote,
          Last("put_bundle", b, {source}, force, put_bundle_returns(StOf(L), b, force, err),
               {}, {}, {}, err))

PutBundle(b, source, install_partitions, file_state, force, exists, err) ==
    /\ ops < MaxOps
    /\ err = NoFault \/ PutRaises(StOf(Now), b, force, err)
    \* arguments that are not read take one value
    /\ err # NoFault \/ (~force /\ HasBundleFile(files, b)) =>
          source = Local /\ file_state = "installed" /\ install_partitions
    /\ err # NoFault \/ PartsOf(b) = {} => install_partitions
    /\ err # NoFault \/ PartsOf(b) = {} \/ ~install_partitions => exists
    /\ Step(DoPutBundle(Now, b, source, install_partitions, file_state, force, exists, err))

DoPutPartition(L, p, source, file_state, exists) ==
    After(put_partition(StOf(L), p, source, file_state, exists), L.remote,
          Last("put_partition", p, {source}, exists, Ok, {}, {}, {}, NoFault))

PutPartition(p, source, file_state, exists) ==
    /\ ops < MaxOps
    /\ Step(DoPutPartition(Now, p, source, file_state, exists))

(***************************************************************************)
(* remove                                                                  *)
(***************************************************************************)
\* database.remove_bundle: the dataset leaves the Catalog
remove_bundle(ds, b) == SelectSeq(ds, LAMBDA d : d # b)

\* the ledger after database.remove_bundle: the records of the bundle and of
\* its partitions leave with their owner
remove_files(fs, b) == {f \in fs : f.ref \notin {b} \cup PartsOf(b)}

\* A remove that leaves the ledger as it is.
remove_keeps_files(st, b) ==
    [st EXCEPT !.ds = remove_bundle(st.ds, b), !.cache = st.cache \ {b}]

\* Library.remove(bundle): lines 290-298
remove(st, b) ==
    [st EXCEPT !.ds = remove_bundle(st.ds, b),
               !.files = remove_files(st.files, b),
               !.cache = st.cache \ {b}]

DoRemove(L, b) ==
    After(remove(StOf(L), b), L.remote,
          Last("remove", b, {Local}, FALSE, Ok, {}, {}, {}, NoFault))

\* the bundle is one the library returned: it is in the Catalog
Remove(b) ==
    /\ ops < MaxOps
    /\ b \in Range(datasets)
    /\ Step(DoRemove(Now, b))

(***************************************************************************)
(* has                                                                     *)
(***************************************************************************)
\* self.cache.has(key), as what has returns
CacheHas(c, a) == IF a \in c THEN "True" ELSE "False"

\* Library.has(ref), lines 415-421: what it returns or raises.  Of the None
\* of a ref that does not resolve, line 418 reads the attribute partition.
has(c, ds, srcs, ref) ==
    LET r == resolve_result(ds, srcs, ref, DefaultLocation)
    IN IF r.res # Ok THEN r.res
       ELSE IF r.ident = NotResolved THEN "AttributeError"
       ELSE IF r.ident.part # NoArt THEN CacheHas(c, r.ident.part)
       ELSE CacheHas(c, r.ident.ds)

(***************************************************************************)
(* list_bundles                                                            *)
(***************************************************************************)
\* str(ident.name), as its place among the names
NameRank(a) == IF a.name = <<"a">> THEN 1 ELSE 2

\* rev_cmp, lines 328-336: by name, and of one name by revision, descending
RevCmpLess(a, b) ==
    \/ NameRank(a) < NameRank(b)
    \/ NameRank(a) = NameRank(b) /\ RevLess(b.ver, a.ver)

\* sorted(self.list().values(), cmp=rev_cmp)
RevSorted(S) ==
    CHOOSE q \in [1..Cardinality(S) -> S] :
        /\ Range(q) = S
        /\ \A i, j \in DOMAIN q : i < j => RevCmpLess(q[i], q[j])

\* ident.locations.has([LOCATION.LIBRARY]): the ledger has a record of the
\* bundle type of the dataset
Located(fs) == {f.ref : f \in {g \in fs : g.type = TypeBundle}}

\* what list_bundles yields: the bundle, and its other_versions then
Yielded(b, others) == [bundle |-> b, other_versions |-> others]

RECURSIVE ListLoop(_, _, _, _)
\* The loop of lines 340-360.  acc.current is the bundle in hand (NoArt: None),
\* acc.others its other_versions, acc.out what was yielded; nf are the vids
\* LibraryDbBundle raises NotFoundError for.
ListLoop(acc, idents, located, nf) ==
    IF idents = <<>> THEN acc
    ELSE
    LET ident == Head(idents)
        rest == Tail(idents)
        yielded == IF acc.current # NoArt
                   THEN [acc EXCEPT !.out = Append(acc.out, Yielded(acc.current, acc.others))]
                   ELSE acc
    IN IF ident \notin located THEN ListLoop(acc, rest, located, nf)
       ELSE IF acc.current = NoArt \/ ident.name # acc.current.name
       THEN IF ident \in nf THEN ListLoop(yielded, rest, located, nf)
            ELSE ListLoop([yielded EXCEPT !.current = ident, !.others = {}],
                          rest, located, nf)
       ELSE ListLoop([acc EXCEPT !.others = acc.others \cup {ident}], rest, located, nf)

\* Library.list_bundles(last_version_only=True), lines 316-364, as the list of
\* what it yields
list_bundles(ds, fs, nf) ==
    LET acc == ListLoop([current |-> NoArt, others |-> {}, out |-> <<>>],
                        RevSorted(Range(ds)), Located(fs), nf)
    IN IF acc.current # NoArt
       THEN Append(acc.out, Yielded(acc.current, acc.others))
       ELSE acc.out

(***************************************************************************)
(* get                                                                     *)
(***************************************************************************)
\* the result of an operation: the state it leaves, what it returns or raises,
\* the remotes it read and the artifacts it handled
Res(st, res, reads, done) == [st |-> st, res |-> res, reads |-> reads, done |-> done]

\* lines 72-73: remote.set_priority(i), i the place of the remote in
\* remotes.values()
Priority == [r \in Remotes |-> (CHOOSE i \in DOMAIN RemoteOrder : RemoteOrder[i] = r) - 1]

\* sorted(self.remotes.values(), key=lambda x: x.priority)
SortedByPriority ==
    CHOOSE rs \in [DOMAIN RemoteOrder -> Remotes] :
        /\ Range(rs) = Remotes
        /\ \A i, j \in DOMAIN rs : i < j => Priority[rs[i]] < Priority[rs[j]]

\* Library.locate of an identity: the local cache, else the first remote by
\* priority that has the key, else NoRemote
locate(c, rem, a) ==
    IF a \in c THEN Local
    ELSE FirstRemote(SortedByPriority, {r \in Remotes : a \in Range(rem[r])})

\* A remote stack that asks the remotes from the last to the first.
ServingRemoteFromLast(rem, a) ==
    FirstRemote([i \in DOMAIN RemoteOrder |-> RemoteOrder[Len(RemoteOrder) + 1 - i]],
                {r \in Remotes : a \in Range(rem[r])})

\* the remote of the remote stack that serves the key: MultiCache asks the
\* remotes in the order of self.remotes.values()
ServingRemote(rem, a) == FirstRemote(RemoteOrder, {r \in Remotes : a \in Range(rem[r])})

GetFaults == {"s3", "missing", "dberror", "copy"}

\* A read from the remote stack that leaves no copy in the local cache.
get_bundle_no_copy(st, rem, a, fault) ==
    IF a \in st.cache
    THEN IF fault = "dberror" THEN Res(st, "SqliteDatabaseError", {}, {})
         ELSE Res(st, Ok, {}, {})
    ELSE LET r == FirstRemote(RemoteOrder, {q \in Remotes : a \in Range(rem[q])})
         IN IF fault = "s3" THEN Res(st, "S3ResponseError", Remotes, {})
            ELSE IF r = NoRemote \/ fault = "missing" THEN Res(st, "False", Remotes, {})
            ELSE IF fault = "dberror" THEN Res(st, "SqliteDatabaseError", {r}, {})
            ELSE Res(st, Ok, {r}, {a})

\* _get_bundle_by_cache_key: the AltReadCache returns the local path if the
\* local cache has the key, and else copies the file from the remote stack into
\* the local cache.  res is Ok, "False" (no path), or the exception raised.
get_bundle_by_cache_key(st, rem, a, fault) ==
    IF a \in st.cache
    THEN IF fault = "dberror" THEN Res(st, "SqliteDatabaseError", {}, {})
         ELSE Res(st, Ok, {}, {})
    ELSE LET r == ServingRemote(rem, a)
             st1 == [st EXCEPT !.cache = st.cache \cup {a}]
         IN IF fault = "s3" THEN Res(st, "S3ResponseError", Remotes, {})
            ELSE IF r = NoRemote \/ fault = "missing" THEN Res(st, "False", Remotes, {})
            ELSE IF fault = "dberror" THEN Res(st1, "SqliteDatabaseError", {r}, {})
            ELSE Res(st1, Ok, {r}, {a})

\* lines 497-503: the stream of the remote is copied into the put_stream of the
\* local cache
CopyPartition(st, p) == [st EXCEPT !.cache = st.cache \cup {p}]

\* the remote get uses for a partition that is not local (lines 437-454)
GetRemote(fs, b, rarg) ==
    LET df_remotes == {f.source : f \in {g \in fs : g.type = TypeBundle /\ g.ref = b}}
    IN IF df_remotes = {} THEN NoRemote
       ELSE IF rarg # NoRemote THEN rarg
       ELSE FirstRemote(RemoteOrder, df_remotes)

\* Library.get(ref, remote=rarg).  partial: a copy that fails leaves the file
\* the put_stream opened in the local cache.
get(st, rem, ref, rarg, fault, partial) ==
    LET ident == resolve(st.ds, ref) IN
    IF ident = NotResolved THEN Res(st, NotFound, {}, {})
    ELSE
    LET rmt == GetRemote(st.files, ident.ds, rarg)
        nofiles == ~HasBundleFile(st.files, ident.ds)
        b == get_bundle_by_cache_key(st, rem, ident.ds, fault)
        p == ident.part
    IN
    IF b.res = "False" THEN Res(b.st, NotFound, b.reads, {})
    ELSE IF b.res # Ok THEN b
    ELSE IF p = NoArt THEN b
    ELSE IF p \in b.st.cache
         THEN Res(put_partition(b.st, p, Local, "installed", TRUE), Ok, b.reads, {})
    ELSE IF rmt = NoRemote
         \* the message formats df.source_url; df is unbound without file records
         THEN Res(b.st, IF nofiles THEN "NameError" ELSE NotFound, b.reads, {})
    ELSE
    LET left == IF partial THEN CopyPartition(b.st, p) ELSE b.st
        got == CopyPartition(b.st, p)
    IN
    IF p \notin Range(rem[rmt]) THEN Res(left, NotFound, b.reads \cup {rmt}, {})
    ELSE IF fault = "copy" THEN Res(left, "IOError", b.reads \cup {rmt}, {})
    \* lines 505-509: the path of the key in the local cache does not exist
    ELSE IF p \notin got.cache THEN Res(got, NotFound, b.reads \cup {rmt}, {})
    ELSE Res(put_partition(got, p, rmt, "installed", TRUE), Ok, b.reads \cup {rmt},
             b.done \cup {p})

\* the names of the dependencies a bundle may have, and one it has not
DepNames == {"d"}
NoDep == "e"

\* the metadata of the bundle the Library is attached to: name -> ref
Dependencies == [DepNames -> Refs] \cup {<<>>}

\* Library._get_dependencies: each ref resolved; "DependencyError" when one
\* does not resolve
get_dependencies(ds, deps) ==
    [res |-> IF \E k \in DOMAIN deps : resolve(ds, deps[k]) = NotResolved
             THEN "DependencyError" ELSE Ok,
     out |-> [k \in DOMAIN deps |->
                 LET ident == resolve(ds, deps[k])
                 IN IF ident.part # NoArt THEN ident.part ELSE ident.ds]]

\* Library.dep(name).  res: what is returned or raised; calls: the number of
\* calls of dep_cb, which is set when cb
dep(st, rem, deps, name, cb) ==
    LET d == get_dependencies(st.ds, deps)
        got == get(st, rem, d.out[name], NoRemote, NoFault, FALSE)
    IN IF d.res # Ok THEN [res |-> d.res, calls |-> 0]
       ELSE IF name \notin DOMAIN d.out THEN [res |-> "DependencyError", calls |-> 0]
       ELSE IF got.res = "NoResultFound" THEN [res |-> "DependencyError", calls |-> 0]
       ELSE IF got.res # Ok THEN [res |-> got.res, calls |-> 0]
       ELSE [res |-> Ok, calls |-> IF cb THEN 1 ELSE 0]

RECURSIVE CheckEach(_, _, _, _, _, _)
\* The loop of lines 848-874 over the keys of self.dependencies.  acc.res is
\* what was raised, acc.errors the keys of the map returned.  get returns a
\* bundle or raises: line 855 never finds a b that is not.
CheckEach(acc, rem, out, keys, throw, download) ==
    IF keys = {} \/ acc.res # Ok THEN acc
    ELSE LET k == CHOOSE x \in keys : TRUE
             got == get(acc.st, rem, out[k], NoRemote, NoFault, FALSE)
             missing == resolve(acc.st.ds, out[k]) = NotResolved
         IN IF download
            THEN CheckEach([acc EXCEPT !.st = got.st, !.res = got.res],
                           rem, out, keys \ {k}, throw, download)
            ELSE IF missing /\ throw THEN [acc EXCEPT !.res = NotFound]
            ELSE CheckEach([acc EXCEPT !.errors = IF missing THEN acc.errors \cup {k}
                                                 ELSE acc.errors],
                           rem, out, keys \ {k}, throw, download)

\* Library.check_dependencies(throw, download), lines 845-876; reading
\* self.dependencies raises when a ref of the metadata does not resolve
check_dependencies(st, rem, deps, throw, download) ==
    LET d == get_dependencies(st.ds, deps)
    IN IF d.res # Ok THEN [st |-> st, res |-> d.res, errors |-> {}]
       ELSE CheckEach([st |-> st, res |-> Ok, errors |-> {}], rem, d.out,
                      DOMAIN d.out, throw, download)

\* Library.resolve(ref, location) of a name; flag: the location has SOURCE;
\* done: the dataset of the identity returned
Resolve(ref, location) ==
    /\ ops < MaxOps
    /\ LET r == resolve_result(datasets, sources, ref, location)
       IN Step(After(StOf(Now), remote,
                     Last("resolve", ref, {}, LocSource \in location, r.res, {}, {},
                          {r.ident.ds} \ {NoArt}, NoFault)))

\* the Library after get returned or raised r
GetDone(L, ref, rarg, fault, partial, r) ==
    After(r.st, L.remote, Last("get", ref, {rarg}, partial, r.res, {}, r.reads, r.done, fault))

DoGet(L, ref, rarg, fault, partial) ==
    GetDone(L, ref, rarg, fault, partial, get(StOf(L), L.remote, ref, rarg, fault, partial))

Get(ref, rarg, fault, partial) ==
    /\ ops < MaxOps
    /\ LET r == get(StOf(Now), remote, ref, rarg, fault, partial)
       IN \* a fault that is not met, and a file no copy left, are not told apart
          /\ fault # NoFault => r # get(StOf(Now), remote, ref, rarg, NoFault, partial)
          /\ partial => r # get(StOf(Now), remote, ref, rarg, fault, FALSE)
          /\ Step(GetDone(Now, ref, rarg, fault, partial, r))

(***************************************************************************)
(* push                                                                    *)
(***************************************************************************)
\* the result of a push: the ledger, the listing of the upstream, what push
\* returns or raises, and the artifacts upstream.put was called with
PushRes(fs, up, res, puts) == [files |-> fs, up |-> up, res |-> res, puts |-> puts]

\* self.files.query.installed.ref(vid).state('new')
NewFilesOf(fs, a) == {f \in InstalledFiles(fs) : f.ref = a /\ f.state = "new"}

\* A push that never writes the state of the record.
MarkNothing(fs, f) == fs

\* file_.state = 'pushed'; session.merge(file_); commit()
MarkPushed(fs, f) == (fs \ {f}) \cup {[f EXCEPT !.state = "pushed"]}

PushFaults == {"has", "put"}

\* lines 940-946 and 964-966: the upstream has the key
PushHas(fs, uplist, file_, dry) ==
    PushRes(IF dry THEN fs ELSE MarkPushed(fs, file_), uplist, "has", {})

\* A put branch that does not read dry_run.
PushPutAlways(fs, uplist, file_, identity, dry, fault) ==
    IF fault = "put" THEN PushRes(fs, uplist, "S3ResponseError", {})
    ELSE PushRes(MarkPushed(fs, file_), Append(uplist, identity), "pushed", {identity})

\* A put branch that writes the state of the record before the put.
PushPutMarksFirst(fs, uplist, file_, identity, dry, fault) ==
    IF dry THEN PushRes(fs, uplist, "pushed", {})
    ELSE IF fault = "put" THEN PushRes(MarkPushed(fs, file_), uplist, "S3ResponseError", {})
    ELSE PushRes(MarkPushed(fs, file_), Append(uplist, identity), "pushed", {identity})

\* lines 948-966: the upstream has not the key; the put appends the key to the
\* listing of the upstream
PushPut(fs, uplist, file_, identity, dry, fault) ==
    IF dry THEN PushRes(fs, uplist, "pushed", {})
    ELSE IF fault = "put" THEN PushRes(fs, uplist, "S3ResponseError", {})
    ELSE PushRes(MarkPushed(fs, file_), Append(uplist, identity), "pushed", {identity})

\* Library.push(upstream, ref, dry_run=dry): lines 919-968.  uplist is the
\* listing of the upstream.
push(fs, ds, uplist, ref, dry, fault) ==
    LET dsid == resolve_ref_one(ds, ref)
        identity == IF dsid.part # NoArt THEN dsid.part ELSE dsid.ds
        found == NewFilesOf(fs, identity)
        file_ == CHOOSE f \in found : TRUE
    IN
    IF dsid = NotResolved THEN PushRes(fs, uplist, "Exception", {})
    ELSE IF found = {} THEN PushRes(fs, uplist, "NoResultFound", {})
    ELSE IF Cardinality(found) > 1 THEN PushRes(fs, uplist, "MultipleResultsFound", {})
    ELSE IF fault = "has" THEN PushRes(fs, uplist, "S3ResponseError", {})
    ELSE IF identity \in Range(uplist) THEN PushHas(fs, uplist, file_, dry)
    ELSE PushPut(fs, uplist, file_, identity, dry, fault)

\* what a push that returns, returns
PushReturns == {"has", "pushed"}

\* the Library after push returned or raised r
PushDone(L, op, up, ref, dry, fault, r) ==
    Lib(L.cache, [L.remote EXCEPT ![up] = r.up], L.ds, r.files,
        Last(op, ref, {up}, dry, r.res, r.puts, {}, {f.ref : f \in r.files \ L.files}, fault))

DoPush(L, up, ref, dry, fault) ==
    PushDone(L, "push", up, ref, dry, fault,
             push(L.files, L.ds, L.remote[up], ref, dry, fault))

Push(up, ref, dry, fault) ==
    /\ ops < MaxOps
    /\ LET r == push(files, datasets, remote[up], ref, dry, fault)
       IN /\ fault # NoFault => r # push(files, datasets, remote[up], ref, dry, NoFault)
          \* a push that raises before it asks the upstream has not read dry_run
          /\ r.res \notin PushReturns /\ fault = NoFault => ~dry
          /\ Step(PushDone(Now, "push", up, ref, dry, fault, r))

\* A new_files that yields the records of bundles only.
NewBundleRefs(fs) == {f.ref : f \in {g \in fs : g.type = TypeBundle /\ g.state = "new"}}

\* new_files: the refs of the records of the installed types in state new
NewRefs(fs) == {f.ref : f \in {g \in InstalledFiles(fs) : g.state = "new"}}

RECURSIVE PushEachGoesOn(_, _, _, _, _, _)
\* A loop that goes on with the next ref after a push raised, and raises when
\* it is through.
PushEachGoesOn(acc, ds, order, dry, fref, fault) ==
    IF order = <<>> THEN acc
    ELSE LET r == push(acc.files, ds, acc.up, Head(order), dry,
                       IF Head(order) = fref THEN fault ELSE NoFault)
             raised == IF r.res \in PushReturns THEN acc.res ELSE r.res
         IN PushEachGoesOn([r EXCEPT !.puts = acc.puts \cup r.puts, !.res = raised],
                           ds, Tail(order), dry, fref, fault)

RECURSIVE PushEach(_, _, _, _, _, _)
\* for ref in [...]: self.push(upstream, ref, cb=cb, dry_run=dry_run); the
\* first push that raises ends the loop.  fref is the ref whose push meets the
\* fault.
PushEach(acc, ds, order, dry, fref, fault) ==
    IF order = <<>> THEN acc
    ELSE LET r == push(acc.files, ds, acc.up, Head(order), dry,
                       IF Head(order) = fref THEN fault ELSE NoFault)
         IN IF r.res \notin PushReturns THEN [r EXCEPT !.puts = acc.puts]
            ELSE PushEach([r EXCEPT !.puts = acc.puts \cup r.puts, !.res = Ok],
                          ds, Tail(order), dry, fref, fault)

\* the orders the query may return the records of state new in
RECURSIVE Perms(_)
Perms(S) == IF S = {} THEN {<<>>}
            ELSE UNION {{<<x>> \o t : t \in Perms(S \ {x})} : x \in S}

\* a ref with two records in state new is in the list twice, and its first
\* push raises: the list is taken with each ref once
PushAllRes(fs, ds, uplist, order, dry, fref, fault) ==
    PushEach(PushRes(fs, uplist, Ok, {}), ds, order, dry, fref, fault)

\* the Library after push(upstream) returned or raised r
PushAllDone(L, up, dry, order, fref, fault, r) ==
    [PushDone(L, "push_all", up, fref, dry, fault, r) EXCEPT !.last.order = order]

DoPushAll(L, up, dry, order, fref, fault) ==
    PushAllDone(L, up, dry, order, fref, fault,
                PushAllRes(L.files, L.ds, L.remote[up], order, dry, fref, fault))

\* the order the pass that does not end early is taken in
AnyOrder(S) == CHOOSE o \in Perms(S) : TRUE

PushAll(up, dry, fref, fault) ==
    /\ ops < MaxOps
    /\ (fault = NoFault) = (fref = NoArt)
    /\ fref \in NewRefs(files) \cup {NoArt}
    /\ \E order \in Perms(NewRefs(files)) :
          LET r == PushAllRes(files, datasets, remote[up], order, dry, fref, fault)
          IN /\ fault # NoFault =>
                    r # PushAllRes(files, datasets, remote[up], order, dry, NoArt, NoFault)
             \* the order only matters to a pass that ends early
             /\ r.res = Ok => order = AnyOrder(NewRefs(files))
             /\ Step(PushAllDone(Now, up, dry, order, fref, fault, r))

(***************************************************************************)
(* sync_library                                                            *)
(***************************************************************************)
\* sorted(bundles, key=lambda b: b.partitions.count)
SortedByCount(order) ==
    \A i, j \in DOMAIN order :
        i < j => Cardinality(PartsOf(order[i])) <= Cardinality(PartsOf(order[j]))

\* "partition": put_partition raises for a partition of the bundle
LibFaults == {"identity", "open", "ConflictError", "Exception", "partition"}

RECURSIVE InstallEachLate(_, _, _, _)
\* An install loop that puts the partitions of a bundle only when the record of
\* the bundle was there before.
InstallEachLate(acc, order, fb, fault) ==
    IF order = <<>> THEN acc
    ELSE LET b == Head(order)
             err == IF b = fb THEN fault ELSE NoFault
             raises == PutRaises(acc.st, b, FALSE, err)
             st1 == put_bundle(acc.st, b, Local, FALSE, "installed", FALSE, FALSE)
             st2 == IF HasBundleFile(acc.st.files, b)
                    THEN PutPartitions(st1, PartsOf(b), Local, "installed", FALSE)
                    ELSE st1
         IN IF raises /\ err = "ConflictError"
            THEN InstallEachLate(acc, Tail(order), fb, fault)
            ELSE IF raises THEN [acc EXCEPT !.res = err]
            ELSE InstallEachLate([acc EXCEPT !.st = st2, !.done = acc.done \cup {b}],
                                 Tail(order), fb, fault)

RECURSIVE InstallEach(_, _, _, _)
\* the install loop of sync_library, lines 1059-1089
InstallEach(acc, order, fb, fault) ==
    IF order = <<>> THEN acc
    ELSE LET b == Head(order)
             err == IF b = fb THEN fault ELSE NoFault
             raises == PutRaises(acc.st, b, FALSE, err)
             st1 == put_bundle(acc.st, b, Local, FALSE, "installed", FALSE, FALSE)
             \* a partition of a bundle of the cache has its file in the cache or
             \* nowhere: put_partition copies nothing
             st2 == PutPartitions(st1, PartsOf(b), Local, "installed", FALSE)
         IN IF raises /\ err = "ConflictError"
            THEN InstallEach(acc, Tail(order), fb, fault)
            ELSE IF raises THEN [acc EXCEPT !.res = err]
            \* lines 1079-1081, 1086-1089: put_bundle has committed; no rollback
            ELSE IF err = "partition" /\ PartsOf(b) # {}
            THEN [acc EXCEPT !.st = st1, !.res = "Exception"]
            ELSE InstallEach([acc EXCEPT !.st = st2, !.done = acc.done \cup {b}],
                             Tail(order), fb, fault)

\* Library.sync_library(clean).  order is the order of the walk, sorted; fb is
\* the bundle file that meets the fault.
sync_library(st, clean, order, fb, fault) ==
    LET st0 == IF clean
               THEN [st EXCEPT !.files = {f \in st.files :
                                           f.type \notin {TypeBundle, TypePartition}}]
               ELSE st
    IN IF fault = "open" THEN Res(st0, "Exception", {}, {})
       ELSE InstallEach(Res(st0, Ok, {}, {}), order, fb, fault)

\* the Library after sync_library returned or raised r
LibDone(L, clean, fb, fault, r) ==
    After(r.st, L.remote,
          [Last("sync_library", fb, {Local}, clean, r.res, {}, {}, r.done, fault)
              EXCEPT !.clean = clean])

DoSyncLibrary(L, clean, order, fb, fault) ==
    LibDone(L, clean, fb, fault, sync_library(StOf(L), clean, order, fb, fault))

\* the orders of a walk that leaves out the bundles of skip
\* b.partitions.count
PartitionCount(b) == Cardinality(PartsOf(b))

RECURSIVE InsertByCount(_, _)
\* b put behind the bundles of the sorted list that have no more partitions
InsertByCount(b, s) ==
    IF s = <<>> THEN <<b>>
    ELSE IF PartitionCount(b) < PartitionCount(Head(s)) THEN <<b>> \o s
    ELSE <<Head(s)>> \o InsertByCount(b, Tail(s))

\* A list that is left in the order of the walk.
unsorted(walk) == walk

RECURSIVE sorted(_)
\* line 1057: sorted(bundles, key=lambda b: b.partitions.count); the sort
\* keeps bundles of one count in the order of the walk
sorted(walk) ==
    IF walk = <<>> THEN <<>>
    ELSE InsertByCount(walk[Len(walk)], sorted(SubSeq(walk, 1, Len(walk) - 1)))

\* the lists of line 1057, os.walk finding the bundles of the cache in any
\* order
WalkOrders(c, skip) == {sorted(o) : o \in Perms((c \cap Bundles) \ skip)}

SyncLibrary(clean, fb, fault) ==
    /\ ops < MaxOps
    /\ (fault = NoFault) = (fb = NoArt)
    /\ fault \in LibFaults => fb \in cache \cap Bundles
    \* a bundle whose identity cannot be read is left out of the list
    /\ \E order \in WalkOrders(cache, IF fault = "identity" THEN {fb} ELSE {}) :
          LET r == sync_library(StOf(Now), clean, order, fb, fault)
          IN /\ fault \in {"ConflictError", "Exception", "partition"} =>
                    r # sync_library(StOf(Now), clean, order, NoArt, NoFault)
             /\ Step(LibDone(Now, clean, fb, fault, r))

(***************************************************************************)
(* sync_remotes                                                            *)
(***************************************************************************)
\* what lines 1130 and 1132 find in the cache key of each artifact
KeyTable == [a \in Artifacts |->
                [key |-> CacheKey(a), nv |-> NvKey(CacheKey(a)),
                 version |-> KeyVersion(CacheKey(a))]]

\* last_keys[nv_key], of a defaultdict(lambda: [0, ''])
LastKeyOf(lk, nv) == IF nv \in DOMAIN lk THEN lk[nv] ELSE <<0, <<>>>>

RECURSIVE LastKeys(_, _, _)
\* The loop of lines 1128-1137 over the cache keys of the listing.  acc.version
\* is <<>> while the variable version is unbound; a key in which the search
\* finds no version leaves it as it is.  acc.raised: the comparison read the
\* unbound variable.
LastKeys(acc, listing, i) ==
    IF i > Len(listing) \/ acc.raised THEN acc
    ELSE LET cache_key == KeyTable[listing[i]].key
             nv_key == KeyTable[listing[i]].nv
             v == KeyTable[listing[i]].version
             version == IF v = NoVersion THEN acc.version ELSE <<v>>
             cur == LastKeyOf(acc.lk, nv_key)
         IN IF version = <<>> THEN [acc EXCEPT !.raised = TRUE]
            ELSE LastKeys([lk |-> (nv_key :> (IF version[1] > cur[1]
                                               THEN <<version[1], cache_key>>
                                               ELSE cur)) @@ acc.lk,
                           version |-> version,
                           raised |-> FALSE],
                          listing, i + 1)

\* use_only, as the set of its cache keys
UseOnly(lk) == {lk[nv][2] : nv \in DOMAIN lk}

SyncFaults == {"s3", "missing", "dberror", "NotABundle", "Exception"}

\* lines 1119-1120: the keys of the records of the remote type with the remote
\* as source
AllKeys(fs, r) == {f.ref : f \in {g \in fs : g.type = TypeRemote /\ g.source = r}}

RECURSIVE SyncKeys(_, _, _, _, _, _, _, _)
\* The loop of lines 1142-1188 over the listing of the remote r.  filter: the
\* pass has a non-empty use_only; fa is the artifact that meets the fault.
SyncKeys(acc, rem, r, listing, filter, use_only, fa, fault) ==
    IF listing = <<>> \/ acc.res # Ok THEN acc
    ELSE
    LET a == Head(listing)
        rest == Tail(listing)
        all_keys == AllKeys(acc.st.files, r)
        f == IF a = fa THEN fault ELSE NoFault
        b == get_bundle_by_cache_key(acc.st, rem, a, f)
        got == [acc EXCEPT !.st = b.st, !.reads = acc.reads \cup b.reads]
        err == IF a \in Partitions THEN "NotABundle" ELSE f
    IN
    IF a \in all_keys
    THEN SyncKeys(acc, rem, r, rest, filter, use_only, fa, fault)
    ELSE IF filter /\ KeyTable[a].key \notin use_only
    THEN SyncKeys(acc, rem, r, rest, filter, use_only, fa, fault)
    ELSE IF b.res \in {"S3ResponseError", "False"}
    THEN SyncKeys(got, rem, r, rest, filter, use_only, fa, fault)
    ELSE IF b.res # Ok THEN [got EXCEPT !.res = b.res]
    ELSE IF PutRaises(b.st, a, FALSE, err) /\ err = "NotABundle"
    THEN SyncKeys(got, rem, r, rest, filter, use_only, fa, fault)
    ELSE IF PutRaises(b.st, a, FALSE, err)
    THEN [got EXCEPT !.res = err]
    ELSE SyncKeys([got EXCEPT !.st = put_bundle(b.st, a, r, FALSE, "installed", FALSE, FALSE),
                              !.done = acc.done \cup {a}],
                  rem, r, rest, filter, use_only, fa, fault)

\* one remote of the loop of line 1110
SyncRemote(acc, rem, r, last_only, fa, fault) ==
    LET lk == LastKeys([lk |-> <<>>, version |-> <<>>, raised |-> FALSE],
                       rem[r], 1)
        use_only == UseOnly(lk.lk)
    IN IF last_only /\ lk.raised THEN [acc EXCEPT !.res = "UnboundLocalError"]
       ELSE SyncKeys(acc, rem, r, rem[r], last_only /\ use_only # {}, use_only, fa, fault)

RECURSIVE SyncEach(_, _, _, _, _, _)
SyncEach(acc, rem, rs, last_only, fa, fault) ==
    IF rs = <<>> \/ acc.res # Ok THEN acc
    ELSE SyncEach(SyncRemote(acc, rem, Head(rs), last_only, fa, fault),
                  rem, Tail(rs), last_only, fa, fault)

\* remotes=None
AllRemotes == <<>>

\* Library.sync_remotes(remotes=rs, clean, last_only)
sync_remotes(st, rem, rs, clean, last_only, fa, fault) ==
    IF clean /\ rs = AllRemotes
    THEN Res(st, "AttributeError", {}, {})
    ELSE LET st0 == IF clean
                    THEN [st EXCEPT !.files =
                            {f \in st.files :
                                ~(f.type \in {TypePartition, TypeBundle}
                                  /\ f.source \in Range(rs))}]
                    ELSE st
         IN SyncEach(Res(st0, Ok, {}, {}), rem,
                     IF rs = AllRemotes THEN RemoteOrder ELSE rs,
                     last_only, fa, fault)

RemoteArgs == {AllRemotes} \cup {<<r>> : r \in Remotes}

\* the remotes of a pass
PassOf(rs) == IF rs = AllRemotes THEN Remotes ELSE Range(rs)

\* the Library after sync_remotes returned or raised r
RemotesDone(L, rs, clean, last_only, fa, fault, r) ==
    After(r.st, L.remote,
          [Last("sync_remotes", fa, PassOf(rs), last_only, r.res, {}, r.reads, r.done,
                fault)
              EXCEPT !.clean = clean])

DoSyncRemotes(L, rs, clean, last_only, fa, fault) ==
    RemotesDone(L, rs, clean, last_only, fa, fault,
                sync_remotes(StOf(L), L.remote, rs, clean, last_only, fa, fault))

\* the artifacts of the listings of a pass
ListedIn(rem, rs) == UNION {Range(rem[r]) : r \in PassOf(rs)}

SyncRemotes(rs, clean, last_only) ==
    /\ ops < MaxOps
    /\ LET ok == sync_remotes(StOf(Now), remote, rs, clean, last_only, NoArt, NoFault)
       IN \/ Step(RemotesDone(Now, rs, clean, last_only, NoArt, NoFault, ok))
          \* a fault that is not met is not told apart from no fault
          \/ \E fa \in ListedIn(remote, rs), fault \in SyncFaults :
                LET r == sync_remotes(StOf(Now), remote, rs, clean, last_only, fa, fault)
                IN r # ok /\ Step(RemotesDone(Now, rs, clean, last_only, fa, fault, r))

(***************************************************************************)
(* The specification.  A behaviour starts with a Library at some point of  *)
(* its use: a new Library (no dataset, no file record) over some cache and *)
(* remotes, or that Library after the calls of one of the Histories.       *)
(***************************************************************************)
Listing(l1, l2) == [r \in Remotes |-> IF r = RemoteOrder[1] THEN l1 ELSE l2]

NewLibrary(c, rem) ==
    Lib(c, rem, <<>>, {}, Last("init", NoArt, {}, FALSE, Ok, {}, {}, {}, NoFault))

NewLibraries ==
    {NewLibrary({}, Listing(<<A100, A101, B100>>, <<>>)),
     NewLibrary({}, Listing(<<B100, A101, A100, P101>>, <<A200, A101>>)),
     NewLibrary({A100, B100, A101}, Listing(<<P101, A101, B100>>, <<>>))}

\* a bundle built here, and its partition, put as new
Built(L) == DoPutBundle(L, A101, Local, TRUE, "new", FALSE, TRUE, NoFault)

\* and pushed
Pushed(L) == DoPush(Built(L), RemoteOrder[1], A101, FALSE, NoFault)

\* the first remote pulled, all versions
Pulled(L) == DoSyncRemotes(L, <<RemoteOrder[1]>>, FALSE, FALSE, NoArt, NoFault)

\* the first remote pulled, the last versions only
PulledLast(L) == DoSyncRemotes(L, <<RemoteOrder[1]>>, FALSE, TRUE, NoArt, NoFault)

\* the cache walked
Walked(L) == DoSyncLibrary(L, FALSE, AnyOrder(L.cache \cap Bundles), NoArt, NoFault)

\* the callers of get, and a caller of has
Getters == {"g1", "g2"}
Callers == Getters \cup {"h"}

\* the chunks copy_file_or_flo copies a partition in
Chunks == 2

\* p: the partition the gets are of; at: the position of each caller; rmt:
\* the remote of each get; n: the chunks its copy has written; hit: the
\* caller found the key in the local cache, or was returned it; saw: the
\* chunks the file had then; written: the chunks the file under the key has
NoGets ==
    [p |-> NoArt, at |-> [c \in Callers |-> "idle"], rmt |-> [g \in Getters |-> NoRemote],
     n |-> [g \in Getters |-> 0], hit |-> [c \in Callers |-> FALSE],
     saw |-> [c \in Callers |-> {}], written |-> {}]

(***************************************************************************)
(* The search index: Search.index_dataset, index_partition and commit.     *)
(***************************************************************************)
\* the documents one vid may have in the index, for the search to be finite
MaxDocs == 2

\* the artifacts that are indexed
Indexed == {A101, B100, P101}

\* docs: the documents of each vid the index has; added: those the writer
\* has added and not committed; deleted: the vids the writer deletes the
\* documents of; known: all_datasets and all_partitions
NoIndex ==
    [docs |-> [a \in Indexed |-> 0], added |-> [a \in Indexed |-> 0],
     deleted |-> {}, known |-> {}]

\* dataset_writer.delete_by_term('vid', vid)
delete_by_term(ix, a) ==
    [ix EXCEPT !.deleted = ix.deleted \cup {a}, !.added[a] = 0]

\* dataset_writer.add_document; all_datasets.add or all_partitions.add
add_document(ix, a) ==
    [ix EXCEPT !.added[a] = ix.added[a] + 1, !.known = ix.known \cup {a}]

\* Search.index_dataset(bundle, force): lines 158-170
index_dataset(ix, b, force) ==
    IF b \in ix.known /\ ~force THEN ix
    ELSE add_document(IF force THEN delete_by_term(ix, b) ELSE ix, b)

\* An index_partition that deletes the document of the partition first.
index_partition_replace(ix, p, force) ==
    IF p \in ix.known /\ ~force THEN ix
    ELSE add_document(IF force THEN delete_by_term(ix, p) ELSE ix, p)

\* Search.index_partition(p, force): lines 215-222
index_partition(ix, p, force) ==
    IF p \in ix.known /\ ~force THEN ix
    ELSE add_document(ix, p)

\* Search.commit: lines 84-88
commit(ix) ==
    [ix EXCEPT !.docs = [a \in Indexed |->
                           (IF a \in ix.deleted THEN 0 ELSE ix.docs[a]) + ix.added[a]],
               !.added = [a \in Indexed |-> 0],
               !.deleted = {}]

RECURSIVE IndexPartitions(_, _)
\* for partition in bundle.partitions: index_partition(partition, force=True)
IndexPartitions(ix, ps) ==
    IF ps = {} THEN ix
    ELSE LET p == CHOOSE q \in ps : TRUE
         IN IndexPartitions(index_partition(ix, p, TRUE), ps \ {p})

\* lines 262-268 of put_bundle, of a Library that has a doc_cache
PutIndexed(ix, b) == commit(IndexPartitions(index_dataset(ix, b, TRUE), PartsOf(b)))

Histories(L) == {L, Built(L), Pushed(L), Pulled(L), PulledLast(L), Walked(L)}

\* a Library that starts with bundles in its cache has a source directory
\* too, from which a sync_source recorded one bundle in the SOURCE scope
SourcesOf(N) == IF N.cache = {} THEN {} ELSE {A200}

Init ==
    /\ \E N \in NewLibraries :
          /\ \E L \in Histories(N) :
                /\ cache = L.cache
                /\ remote = L.remote
                /\ datasets = L.ds
                /\ files = L.files
                /\ last = L.last
          /\ sources = SourcesOf(N)
    /\ ops = 0
    /\ gets = NoGets
    /\ index = NoIndex

FileStates == {"new", "installed"}

Next ==
    \/ \E b \in Bundles, source \in Sources, ip \in BOOLEAN, fs \in FileStates,
          force \in BOOLEAN, exists \in BOOLEAN, err \in PutErrors \cup {NoFault} :
          PutBundle(b, source, ip, fs, force, exists, err)
    \/ \E p \in Partitions, source \in Sources, fs \in FileStates, exists \in BOOLEAN :
          PutPartition(p, source, fs, exists)
    \/ \E b \in Bundles : Remove(b)
    \/ \E ref \in Refs, rarg \in Remotes \cup {NoRemote}, fault \in GetFaults \cup {NoFault},
          partial \in BOOLEAN :
          Get(ref, rarg, fault, partial)
    \/ \E ref \in NameRefs \cup {Junk}, location \in {DefaultLocation, EveryLocation} :
          Resolve(ref, location)
    \/ \E up \in Remotes, ref \in Refs, dry \in BOOLEAN, fault \in PushFaults \cup {NoFault} :
          Push(up, ref, dry, fault)
    \/ \E up \in Remotes, dry \in BOOLEAN, fref \in Artifacts \cup {NoArt},
          fault \in PushFaults \cup {NoFault} :
          PushAll(up, dry, fref, fault)
    \/ \E clean \in BOOLEAN, fb \in Bundles \cup {NoArt}, fault \in LibFaults \cup {NoFault} :
          SyncLibrary(clean, fb, fault)
    \/ \E rs \in RemoteArgs, clean \in BOOLEAN, last_only \in BOOLEAN :
          SyncRemotes(rs, clean, last_only)

Spec == Init /\ [][Next]_vars

(***************************************************************************)
(* A Library with a doc_cache: put_bundle indexes what it installs, and    *)
(* the search index is written to beside it.                               *)
(***************************************************************************)
SearchInit ==
    /\ \E N \in NewLibraries :
          /\ N.cache = {}
          /\ cache = N.cache
          /\ remote = N.remote
          /\ datasets = N.ds
          /\ files = N.files
          /\ last = N.last
          /\ sources = SourcesOf(N)
    /\ ops = 0
    /\ gets = NoGets
    /\ index = NoIndex

\* the writer can add one more document of each of the vids
Room(ix, as) == \A a \in as : ix.docs[a] + ix.added[a] < MaxDocs

IndexDataset(b, force) ==
    /\ Room(index, {b})
    /\ index' = index_dataset(index, b, force)
    /\ UNCHANGED <<cache, remote, datasets, files, last, ops, gets, sources>>

IndexPartition(p, force) ==
    /\ Room(index, {p})
    /\ index' = index_partition(index, p, force)
    /\ UNCHANGED <<cache, remote, datasets, files, last, ops, gets, sources>>

Commit ==
    /\ index' = commit(index)
    /\ UNCHANGED <<cache, remote, datasets, files, last, ops, gets, sources>>

\* put_bundle(bundle, force=force): the return of line 245 leaves the index
IndexedPutBundle(b, force) ==
    /\ Room(index, {b} \cup PartsOf(b))
    /\ LET L == DoPutBundle(Now, b, Local, TRUE, "installed", force, TRUE, NoFault)
       IN /\ cache' = L.cache
          /\ remote' = L.remote
          /\ datasets' = L.ds
          /\ files' = L.files
          /\ last' = L.last
          /\ index' = IF L.last.res = "False" THEN index ELSE PutIndexed(index, b)
    /\ UNCHANGED <<ops, gets, sources>>

SearchNext ==
    \/ \E b \in Indexed \cap Bundles, force \in BOOLEAN : IndexDataset(b, force)
    \/ \E p \in Indexed \cap Partitions, force \in BOOLEAN : IndexPartition(p, force)
    \/ Commit
    \/ \E b \in Indexed \cap Bundles, force \in BOOLEAN : IndexedPutBundle(b, force)

SearchSpec == SearchInit /\ [][SearchNext]_vars

(***************************************************************************)
(* Two gets of one partition that is not local, and a has, run at the same *)
(* time.  get holds no lock; each step is what one caller does between two *)
(* points where another may run.                                           *)
(***************************************************************************)
AllChunks == 1..Chunks

\* the gets start in a Library in which each of them, alone, copies the
\* partition from its remote
CopyInit ==
    /\ \E N \in NewLibraries, p \in Partitions, ra \in [Getters -> Remotes \cup {NoRemote}] :
       \E L \in Histories(N) :
          /\ sources = SourcesOf(N)
          /\ \A g \in Getters :
                LET r == get(StOf(L), L.remote, p, ra[g], NoFault, FALSE)
                IN r.res = Ok /\ p \in r.done
          /\ cache = L.cache
          /\ remote = L.remote
          /\ datasets = L.ds
          /\ files = L.files
          /\ last = L.last
          /\ gets = [NoGets EXCEPT !.p = p,
                                   !.at = [c \in Callers |-> "start"],
                                   !.rmt = [g \in Getters |->
                                              GetRemote(L.files, BundleOf(p), ra[g])]]
    /\ ops = 0
    /\ index = NoIndex

\* lines 430-461: resolve, the remote, the bundle
GetBundle(g) ==
    /\ gets.at[g] = "start"
    /\ cache' = get_bundle_by_cache_key(StOf(Now), remote, BundleOf(gets.p), NoFault).st.cache
    /\ gets' = [gets EXCEPT !.at[g] = "bundle"]
    /\ UNCHANGED <<remote, datasets, files, last, ops, sources, index>>

\* line 472: if not self.cache.has(partition.identity.cache_key)
GetHas(g) ==
    /\ gets.at[g] = "bundle"
    /\ gets' = IF gets.p \in cache
               THEN [gets EXCEPT !.at[g] = "local", !.hit[g] = TRUE, !.saw[g] = gets.written]
               ELSE [gets EXCEPT !.at[g] = "nonlocal"]
    /\ UNCHANGED <<cache, remote, datasets, files, last, ops, sources, index>>

\* lines 497-498: put_stream opens the file under the key, empty; the remote
\* gives its stream
GetPutStream(g) ==
    /\ gets.at[g] = "nonlocal"
    /\ cache' = cache \cup {gets.p}
    /\ gets' = [gets EXCEPT !.at[g] = "copying", !.n[g] = 0, !.written = {}]
    /\ UNCHANGED <<remote, datasets, files, last, ops, sources, index>>

\* line 503: copy_file_or_flo writes the next chunk at its own offset
GetCopyChunk(g) ==
    /\ gets.at[g] = "copying"
    /\ gets.n[g] < Chunks
    /\ gets' = [gets EXCEPT !.n[g] = @ + 1, !.written = @ \cup {gets.n[g] + 1}]
    /\ UNCHANGED <<cache, remote, datasets, files, last, ops, sources, index>>

\* the end of the with block: the sink is closed
GetCloseStream(g) ==
    /\ gets.at[g] = "copying"
    /\ gets.n[g] = Chunks
    /\ gets' = [gets EXCEPT !.at[g] = "copied"]
    /\ UNCHANGED <<cache, remote, datasets, files, last, ops, sources, index>>

\* lines 505-520: the path is there, put_partition, and the caller has the
\* partition
GetReturn(g) ==
    /\ gets.at[g] \in {"copied", "local"}
    /\ gets.p \in cache
    /\ files' = put_partition(StOf(Now), gets.p,
                              IF gets.at[g] = "copied" THEN gets.rmt[g] ELSE Local,
                              "installed", TRUE).files
    /\ gets' = [gets EXCEPT !.at[g] = "returned", !.hit[g] = TRUE, !.saw[g] = gets.written]
    /\ UNCHANGED <<cache, remote, datasets, last, ops, sources, index>>

\* Library.has(ref) of the partition, lines 415-421
Has ==
    /\ gets.at["h"] = "start"
    /\ gets' = [gets EXCEPT !.at["h"] = "returned", !.hit["h"] = gets.p \in cache,
                            !.saw["h"] = gets.written]
    /\ UNCHANGED <<cache, remote, datasets, files, last, ops, sources, index>>

CopyNext ==
    \/ \E g \in Getters : GetBundle(g)
    \/ \E g \in Getters : GetHas(g)
    \/ \E g \in Getters : GetPutStream(g)
    \/ \E g \in Getters : GetCopyChunk(g)
    \/ \E g \in Getters : GetCloseStream(g)
    \/ \E g \in Getters : GetReturn(g)
    \/ Has

CopySpec == CopyInit /\ [][CopyNext]_vars

(***************************************************************************)
(* Properties.  last tells what the operation that led to the state was    *)
(* given and what it did; the listings, the Catalog and the ledger are in  *)
(* the state.                                                              *)
(***************************************************************************)
\* the bundles of a listing that have the highest revision of their name
LatestOfEachName(listing) ==
    {a \in Range(listing) :
        \A o \in Range(listing) : o.name = a.name => ~RevLess(a.ver, o.ver)}

\* a sync_remotes that met no fault, over the one remote r, whose listing
\* holds the keys of bundles only
PassOver(r) ==
    /\ last.op = "sync_remotes"
    /\ last.up = {r}
    /\ last.fault = NoFault
    /\ Range(remote[r]) \subseteq Bundles

\* C1: a sync_remotes with last_only installs, of every name of the listing,
\* exactly the key of the highest revision, a name whose only key ends in
\* revision 0 included.  The code does not: see LastKeys.
C1_LastOnlyInstallsLatestOfEachName ==
    \A r \in Remotes :
        PassOver(r) /\ last.flag =>
            /\ last.res = Ok
            /\ last.done = LatestOfEachName(remote[r])
            /\ last.done \subseteq Range(datasets)

\* the faults of a key that cannot be loaded, or is no valid bundle
LoadFaults == {"s3", "missing", "dberror", "NotABundle"}

\* C2: in a sync_remotes pass without last_only in which one key of a listing
\* cannot be loaded or is no valid bundle, every other bundle of that listing
\* is in the Catalog and in the ledger when the pass ends.  The code does not:
\* see SyncKeys.
C2_FailingKeyNeverAbortsThePass ==
    last.op = "sync_remotes" /\ ~last.flag /\ last.fault \in LoadFaults =>
        \A r \in last.up :
            last.ref \in Range(remote[r]) =>
                \A a \in (Range(remote[r]) \cap Bundles) \ {last.ref} :
                    a \in Range(datasets) /\ HasBundleFile(files, a)

\* new, installed, pushed
StateRank(state) == CASE state = "new" -> 1 [] state = "installed" -> 2 [] state = "pushed" -> 3

LastIdentity ==
    LET dsid == resolve_ref_one(datasets, last.ref)
    IN IF dsid.part # NoArt THEN dsid.part ELSE dsid.ds

\* C4: a push of one ref, not a dry run, that found the key in the upstream
\* has not called upstream.put, and the record that was new is pushed.
C4_PushShortCircuit ==
    last.op = "push" /\ ~last.flag /\ last.res = "has" =>
        /\ last.puts = {}
        /\ NewFilesOf(files, LastIdentity) = {}
        /\ \E f \in InstalledFiles(files) : f.ref = LastIdentity /\ f.state = "pushed"
        /\ \A r \in last.up : LastIdentity \in Range(remote[r])

\* a push that found the key in the upstream and wrote the record
C4_PushedWithoutPut ==
    /\ last.op = "push" /\ ~last.flag /\ last.res = "has"
    /\ last.done = {LastIdentity}

\* C5: a push with dry_run, of one ref or of all new records, has not called
\* upstream.put and has written no record of the ledger.
C5_DryRunChangesNothing ==
    last.op \in {"push", "push_all"} /\ last.flag =>
        last.puts = {} /\ last.done = {}

\* a dry run of a push that would have put the file
C5_DryRunWouldPut ==
    /\ last.op = "push" /\ last.flag /\ last.res = "pushed"
    /\ NewFilesOf(files, LastIdentity) # {}
    /\ \A r \in last.up : LastIdentity \notin Range(remote[r])

\* C6: after a get that read a remote and returned, the local cache has what
\* it fetched, and a second get of the ref returns and reads no remote; and a
\* bundle that _get_bundle_by_cache_key reads from the remote stack is in the
\* local cache afterwards, where a second read finds it.
C6_ReadThroughOnce ==
    /\ last.op = "get" /\ last.res = Ok /\ last.reads # {} =>
          /\ last.done # {}
          /\ last.done \subseteq cache
          /\ \A rarg \in last.up :
                LET again == get(StOf(Now), remote, last.ref, rarg, NoFault, FALSE)
                IN again.res = Ok /\ again.reads = {} /\ again.done = {}
    /\ \A a \in Bundles \ cache :
          LET first == get_bundle_by_cache_key(StOf(Now), remote, a, NoFault)
              again == get_bundle_by_cache_key(first.st, remote, a, NoFault)
          IN first.res = Ok =>
                /\ first.reads # {}
                /\ a \in first.st.cache
                /\ again.res = Ok /\ again.reads = {} /\ again.st = first.st

\* a get that copied a partition from a remote
C6_PartitionFetched ==
    /\ last.op = "get" /\ last.res = Ok /\ last.reads # {}
    /\ last.done \cap Partitions # {}

\* the installed datasets with the id of ref
RevisionsOf(ref) == {b \in Range(datasets) : b.name = ref.name}

\* C7: a bare id of which the Catalog has datasets resolves to the one of the
\* highest revision, by resolve and by dataset, whatever the insertion order.
C7_BareIdResolvesToHighestRevision ==
    \A ref \in Ids :
        RevisionsOf(ref) # {} =>
            /\ resolve(datasets, ref).ds \in RevisionsOf(ref)
            /\ dataset(datasets, ref) \in RevisionsOf(ref)
            /\ \A b \in RevisionsOf(ref) :
                  /\ ~RevLess(resolve(datasets, ref).ds.ver, b.ver)
                  /\ ~RevLess(dataset(datasets, ref).ver, b.ver)

\* a Catalog in which a lower revision of an id was installed after a higher
C7_LowerInstalledLater ==
    \E i, j \in DOMAIN datasets :
        i < j /\ datasets[i].name = datasets[j].name
              /\ RevLess(datasets[j].ver, datasets[i].ver)

\* C8: what sync_remotes extracts of the cache key of a bundle is its name
\* without the revision and its whole revision: of two listed keys of one name
\* the extracted versions compare as the revisions do.  The code extracts the
\* last number only: see KeyVersion.
C8_KeysCompareByWholeRevision ==
    \A r \in Remotes :
        \A a, b \in Range(remote[r]) \cap Bundles :
            /\ KeyTable[a].nv = a.name
            /\ a.name = b.name =>
                  (KeyTable[a].version < KeyTable[b].version <=> RevLess(a.ver, b.ver))

\* C9: after a push of a ref that returned, not a dry run, a second push of
\* the ref to the upstream returns as well and leaves the record pushed.  The
\* code does not: the second push finds no record in state new.
C9_PushAgainReturns ==
    last.op = "push" /\ ~last.flag /\ last.res \in PushReturns =>
        \A up \in last.up :
            LET again == push(files, datasets, remote[up], last.ref, FALSE, NoFault)
            IN again.res \in PushReturns /\ again.files = files

\* C10: after a push of all new records, not a dry run, that returned, no
\* record of the ledger is in state new.
C10_PushAllLeavesNothingNew ==
    last.op = "push_all" /\ ~last.flag /\ last.res = Ok =>
        \A f \in files : f.state # "new"

\* a push of all that pushed the records of a bundle and of its partition
C10_BundleAndPartitionPushed ==
    /\ last.op = "push_all" /\ ~last.flag /\ last.res = Ok
    /\ last.done \cap Bundles # {}
    /\ last.done \cap Partitions # {}

\* the bundles of the listing of r that a pass installed with r as source
InstalledFrom(r) ==
    {a \in Range(remote[r]) \cap Bundles :
        \E f \in files : f.ref = a /\ f.type = TypeBundle /\ f.source = r}

\* C11: a key that a pass installed with the remote as source is among the
\* known keys of the remote, and a later pass over the remote does not touch
\* it: the pass reads no remote, leaves cache, Catalog and ledger as they are,
\* and is the same whatever has become of the file of the key.  The code does
\* not: all_keys is taken of records no install writes.
C11_KnownKeysAreSkipped ==
    \A r \in Remotes :
        last.op = "sync_remotes" /\ last.fault = NoFault /\ last.res = Ok /\ r \in last.up =>
            \A a \in InstalledFrom(r) :
                LET again == sync_remotes(StOf(Now), remote, <<r>>, FALSE, last.flag,
                                          NoArt, NoFault)
                IN /\ a \in AllKeys(files, r)
                   /\ again.reads = {} /\ again.st = StOf(Now)
                   /\ \A fault \in SyncFaults :
                         sync_remotes(StOf(Now), remote, <<r>>, FALSE, last.flag, a, fault)
                             = again

\* C12: after a sync_library without clean that met no fault, a second one
\* over the same cache, in whatever order of the walk, leaves the Catalog and
\* every record of the ledger, its state included, as they are.
C12_SyncLibraryTwice ==
    last.op = "sync_library" /\ ~last.clean /\ last.fault = NoFault /\ last.res = Ok =>
        \A order \in WalkOrders(cache, {}) :
            LET again == sync_library(StOf(Now), FALSE, order, NoArt, NoFault)
            IN again.res = Ok /\ again.st = StOf(Now)

\* a sync_library that installed several bundles, one with a partition, over
\* a ledger that has a pushed record of one of them
C12_WalkedOverPushed ==
    /\ last.op = "sync_library" /\ ~last.clean /\ last.fault = NoFault /\ last.res = Ok
    /\ Cardinality(last.done) > 1
    /\ \E b \in last.done : PartsOf(b) # {}
    /\ \E f \in files : f.ref \in last.done /\ f.state = "pushed"

\* the search of line 1132 finds a version in the cache key of the artifact
HasVersion(a) == KeyTable[a].version # NoVersion

\* the cache keys that lines 1126-1140 leave in use_only for a listing
UseOnlyOf(listing) ==
    UseOnly(LastKeys([lk |-> <<>>, version |-> <<>>, raised |-> FALSE], listing, 1).lk)

\* C13: in a sync_remotes pass with last_only that met no fault, a key of the
\* listing in which no revision is found does not abort the pass, is not
\* selected (so it is not installed), and the keys selected among
\* the others are those selected when it is not in the listing.  The code
\* does not: see LastKeys.
C13_KeyWithoutRevisionIsRevisionZero ==
    \A r \in Remotes :
        last.op = "sync_remotes" /\ last.flag /\ last.fault = NoFault /\ last.up = {r}
        /\ (\E a \in Range(remote[r]) : ~HasVersion(a)) =>
            /\ last.res = Ok
            /\ \A a \in Range(remote[r]) :
                   ~HasVersion(a) => a \notin last.done
            /\ {k \in UseOnlyOf(remote[r]) :
                     \A a \in Range(remote[r]) : ~HasVersion(a) => k # KeyTable[a].key}
                 = UseOnlyOf(SelectSeq(remote[r], HasVersion))

\* the identity a push of the ref is about: lines 921-930
PushIdentity(ds, ref) ==
    LET dsid == resolve_ref_one(ds, ref)
    IN IF dsid.part # NoArt THEN dsid.part ELSE dsid.ds

\* C14: a push of one ref in which upstream.has or upstream.put raises, raises
\* to the caller, has changed no record of the ledger, and the record of the
\* ref is in state new.
C14_FailedPushLeavesRecordNew ==
    last.op = "push" /\ last.fault \in PushFaults =>
        /\ last.res = "S3ResponseError"
        /\ last.done = {}
        /\ NewFilesOf(files, PushIdentity(datasets, last.ref)) # {}

\* a push, not a dry run, whose upstream.put raised
C14_PutRaised ==
    /\ last.op = "push" /\ last.fault = "put" /\ ~last.flag
    /\ last.res = "S3ResponseError"

\* C15: a push of all new records, not a dry run, that raised: some ref of the
\* batch is the first whose push failed (the one that met the fault, when
\* there was one); every ref before it has been put or found upstream and has
\* its record pushed, that ref and every ref after it have their records in
\* state new and untouched, and the exception reached the caller.
C15_FirstFailureAbortsTheBatch ==
    last.op = "push_all" /\ ~last.flag /\ (last.fault # NoFault \/ last.res # Ok) =>
        /\ last.res \notin PushReturns \cup {Ok}
        /\ \E i \in DOMAIN last.order :
               /\ last.fault # NoFault => last.order[i] = last.ref
               /\ \A j \in DOMAIN last.order :
                      IF j < i
                      THEN /\ last.order[j] \in last.done
                           /\ NewFilesOf(files, last.order[j]) = {}
                           /\ \E f \in files : f.ref = last.order[j] /\ f.state = "pushed"
                      ELSE /\ last.order[j] \notin last.done \cup last.puts
                           /\ NewFilesOf(files, last.order[j]) # {}

\* a push of all new records that pushed one ref and failed at the next
C15_FailedAfterOnePushed ==
    /\ last.op = "push_all" /\ ~last.flag /\ last.fault \in PushFaults
    /\ last.res = "S3ResponseError"
    /\ Len(last.order) > 1 /\ last.order[2] = last.ref
    /\ last.order[1] \in last.puts

\* C16: a put_bundle with default arguments of a bundle that has no record in
\* the ledger leaves a record of the bundle in state new, and a push of all
\* new records that follows puts the bundle to an upstream that has it not.
\* The code does not: see DefaultFileState.
C16_DefaultPutIsNew ==
    \A b \in Bundles :
        (\A f \in files : f.ref # b) =>
            LET st == put_bundle_default(StOf(Now), b)
            IN /\ \E f \in st.files : f.ref = b /\ f.type = TypeBundle /\ f.state = "new"
               /\ \A up \in Remotes :
                      b \notin Range(remote[up]) =>
                          b \in PushAllRes(st.files, st.ds, remote[up],
                                           AnyOrder(NewRefs(st.files)), FALSE,
                                           NoArt, NoFault).puts

\* C17: a put_bundle without force of a bundle that has a record of the bundle
\* type changes nothing in the Catalog, the ledger and the local tier,
\* installs no partition, and returns the path with False.
C17_PutOfKnownBundleIsNoOp ==
    [][last'.op = "put_bundle" /\ ~last'.flag /\ last'.fault = NoFault
       /\ HasBundleFile(files, last'.ref) =>
           /\ datasets' = datasets /\ files' = files /\ cache' = cache
           /\ remote' = remote
           /\ last'.res = "False"]_vars

\* a put_bundle that returned early for a bundle whose partition has no
\* record
C17_ReturnedEarly ==
    /\ last.op = "put_bundle" /\ ~last.flag /\ last.res = "False"
    /\ HasBundleFile(files, last.ref)
    /\ \E p \in PartsOf(last.ref) : \A f \in files : f.ref # p

ServingTier(st, b, p, rarg) ==
    IF p \in st.cache THEN Local ELSE GetRemote(st.files, b, rarg)

\* the records of the partition p with the source
PartitionFiles(fs, p, source) ==
    {f \in fs : f.ref = p /\ f.type = TypePartition /\ f.source = source}

C20_GetRaisesNotFoundOnly ==
    \A ref \in Refs, rarg \in Remotes \cup {NoRemote} :
        LET ident == resolve(datasets, ref)
        IN \/ ident = NotResolved
           \/ ident.ds \notin cache /\ ServingRemote(remote, ident.ds) = NoRemote
           \/ /\ ident.part # NoArt /\ ident.part \notin cache
              /\ GetRemote(files, ident.ds, rarg) = NoRemote
           => get(StOf(Now), remote, ref, rarg, NoFault, FALSE).res = NotFound

\* C21: after a get of a partition whose copy from the remote failed (the
\* remote gave no stream, or the copy raised), the local tier has not the
\* cache key of the partition.  The code does not: see get.
C21_FailedCopyLeavesNoLocalKey ==
    last.op = "get" /\ last.res \in {"IOError", NotFound} =>
        LET ident == resolve(datasets, last.ref)
        IN ident # NotResolved /\ ident.part # NoArt /\ ident.ds \in cache =>
               ident.part \notin cache

\* C22: of two gets of one partition that is not local, run at the same time
\* with a has, no caller finds the key in the local cache, or is returned the
\* partition, while the file under the key has a part of its chunks only; and
\* when both gets have returned the file has them all.  The code does not:
\* see GetPutStream.
C22_NoCallerSeesPartialFile ==
    /\ \A c \in Callers : gets.hit[c] => gets.saw[c] = AllChunks
    /\ (\A g \in Getters : gets.at[g] = "returned") => gets.written = AllChunks

\* the remotes that have the key and no remote of a lower priority rank has
LowestRank(rem, a) ==
    {r \in Remotes : /\ a \in Range(rem[r])
                     /\ \A q \in Remotes : a \in Range(rem[q]) => Priority[r] <= Priority[q]}

C24_UnopenableFileIsSkipped ==
    last.op = "sync_library" /\ last.fault \in {"identity", "open"} =>
        /\ last.res = Ok
        /\ \A b \in (cache \cap Bundles) \ {last.ref} :
               b \in Range(datasets) /\ HasBundleFile(files, b)

\* C25: a sync_library in whose install loop the install of one bundle
\* raised, a ConflictError or any other exception, returns, and every other
\* bundle of the cache is in the Catalog and in the ledger.  The code does
\* not: see InstallEach.
C25_FailedInstallIsSkipped ==
    last.op = "sync_library" /\ last.fault \in {"ConflictError", "Exception"} =>
        /\ last.res = Ok
        /\ \A b \in (cache \cap Bundles) \ {last.ref} :
               b \in Range(datasets) /\ HasBundleFile(files, b)

\* no tier has the cache key of the artifact
InNoTier(c, rem, a) == a \notin c /\ \A r \in Remotes : a \notin Range(rem[r])

\* C26: in every state, a dep of a name that has no mapping raises
\* DependencyError; so does a dep of a name whose target, or the bundle of
\* whose target, is in no tier; and a dep that returns has called dep_cb,
\* when it is set, once.  The code does not: see dep.
C26_DepRaisesDependencyError ==
    \A deps \in Dependencies, cb \in BOOLEAN :
        /\ dep(StOf(Now), remote, deps, NoDep, cb).res = "DependencyError"
        /\ \A name \in DOMAIN deps :
               LET r == dep(StOf(Now), remote, deps, name, cb)
                   ident == resolve(datasets, deps[name])
               IN /\ \/ ident = NotResolved
                     \/ InNoTier(cache, remote, ident.ds)
                     \/ ident.part # NoArt /\ InNoTier(cache, remote, ident.part)
                     => r.res = "DependencyError"
                  /\ r.res = Ok => r.calls = IF cb THEN 1 ELSE 0

\* the datasets recorded in the SOURCE scope only
OnlySource == sources \ Range(datasets)

Matching(rows, ref) ==
    IF ref = Junk THEN {}
    ELSE IF ref \in NameRefs THEN {d \in Range(rows) : NameOf(d) = ref.name}
    ELSE IF ref \in Ids THEN {d \in Range(rows) : d.name = ref.name}
    ELSE {d \in Range(rows) : d = BundleOf(ref) \/ d = ref}

RowsOf(st, b) ==
    [catalog |-> b \in Range(st.ds),
     ledger |-> {f \in st.files : f.ref \in {b} \cup PartsOf(b)}]

\* C29: in every state, a sync_library in which the install of a partition of
\* one bundle raises leaves the rows of that bundle and of its partitions as
\* they were before, and the bundles installed before it in the pass are in
\* the Catalog and in the ledger.  The code does not: see InstallEach.
C29_FailedInstallIsRolledBack ==
    \A fb \in cache \cap Bundles :
        \A order \in WalkOrders(cache, {}) :
            LET r == sync_library(StOf(Now), FALSE, order, fb, "partition")
            IN r.res # Ok =>
                   /\ RowsOf(r.st, fb) = RowsOf(StOf(Now), fb)
                   /\ \A b \in r.done : b \in Range(r.st.ds) /\ HasBundleFile(r.st.files, b)

\* the bundles the walk of the last sync_library read the identity of
WalkedOf(c) == (c \cap Bundles) \ (IF last.fault = "identity" THEN {last.ref} ELSE {})

\* C30: after a sync_library with clean that returned, the Catalog rows and
\* the ledger records of types bundle and partition are of exactly the
\* bundles the walk found in the local cache and of their partitions: what
\* was there before the walk is purged.  The code purges the ledger records
\* only, never the Catalog (lines 1010-1012), so a Catalog row of a bundle
\* the walk did not find stays.
C30_CleanSyncLeavesOnlyTheCached ==
    (last.op = "sync_library" /\ last.clean /\ last.res = Ok) =>
        /\ Range(datasets) = WalkedOf(cache)
        /\ {f.ref : f \in {g \in files : g.type = TypeBundle}} = WalkedOf(cache)
        /\ \A f \in files : f.type = TypePartition =>
               \E b \in WalkedOf(cache) : f.ref \in PartsOf(b)

\* C31: in every state the ledger holds at most one record of a ref and a
\* type, and no push raises for having found two.  The ledger keeps a record
\* per (ref, type, source) and the operations name different sources, so the
\* code does not.
C31_OneRecordPerRefAndKind ==
    /\ \A f \in files : \A g \in files : f.ref = g.ref /\ f.type = g.type => f = g
    /\ last.op = "push" => last.res # "MultipleResultsFound"

\* C32: in every state, each ledger record of the bundle or partition type
\* in state installed or pushed is of an artifact the local cache has the
\* key of.  put_partition writes the record before it looks for the file
\* (lines 281-286), so the code does not.
C32_InstalledMeansLocalCopy ==
    \A f \in InstalledFiles(files) :
        f.state \in {"installed", "pushed"} => f.ref \in cache

\* the (ref, type, source) the ledger has a record of
RecordKeys(fs) == {<<f.ref, f.type, f.source>> : f \in fs}

C34_InstallsInAscendingPartitionCount ==
    LET found == cache \cap Bundles
        orders == WalkOrders(cache, {})
    IN /\ orders # {}
       /\ \A order \in orders :
             /\ SortedByCount(order)
             /\ Len(order) = Cardinality(found) /\ Range(order) = found
       /\ found \ Range(datasets) # {} =>
             \A order \in orders :
                 LET r == sync_library(StOf(Now), FALSE, order, NoArt, NoFault)
                 IN SelectSeq(r.st.ds, LAMBDA d : d \notin Range(datasets))
                        = SelectSeq(order, LAMBDA d : d \notin Range(datasets))

\* a sync_library that installed the bundle with a partition and another
C34_InstalledTwoCounts ==
    /\ ops > 0 /\ last.op = "sync_library" /\ last.res = Ok
    /\ \E b \in last.done : PartsOf(b) # {}
    /\ \E b \in last.done : PartsOf(b) = {}
    /\ \E i, j \in DOMAIN datasets :
          i < j /\ PartsOf(datasets[i]) = {} /\ PartsOf(datasets[j]) # {}

\* C35: in every state, whichever Catalog records cannot be loaded,
\* list_bundles with last_version_only yields each dataset id at most once,
\* the bundle yielded for an id being the highest revision of the id that has
\* the location and can be loaded, and its other_versions the lower revisions
\* of the id that have the location.  The code yields the bundle in hand again
\* after a record that cannot be loaded.
C35_EachIdYieldedOnce ==
    \A nf \in SUBSET Range(datasets) :
        LET out == list_bundles(datasets, files, nf)
            shown == Located(files) \cap Range(datasets)
        IN /\ \A i, j \in DOMAIN out : out[i].bundle.name = out[j].bundle.name => i = j
           /\ \A i \in DOMAIN out :
                 LET b == out[i].bundle
                 IN /\ b \in shown \ nf
                    /\ \A o \in shown \ nf : o.name = b.name =>
                          o = b \/ RevLess(o.ver, b.ver)
                    /\ out[i].other_versions =
                          {o \in shown : o.name = b.name /\ RevLess(o.ver, b.ver)}

\* C36: in every state and for every ref, has(ref) returns True or False:
\* True exactly when the ref resolves and the local cache has the key of the
\* identity (of the partition, for the ref of a partition), and False for a
\* ref that does not resolve.  The code raises for such a ref: see has.
C36_HasIsABooleanOfTheLocalTier ==
    \A ref \in Refs \cup {Junk} :
        LET ident == resolve_at(datasets, sources, ref, DefaultLocation)
            a == IF ident.part # NoArt THEN ident.part ELSE ident.ds
        IN has(cache, datasets, sources, ref)
               = (IF ident # NotResolved /\ a \in cache THEN "True" ELSE "False")

\* C37: in every state, a sync_remotes asked to clean and given no remotes
\* does what it does when it is given the remotes of the library: it purges
\* their bundle and partition records and syncs them.  The code reads
\* remotes.items() of the None at line 1098 and raises before any remote.
C37_CleanWithoutRemotesIsCleanOfAll ==
    \A last_only \in BOOLEAN :
        sync_remotes(StOf(Now), remote, AllRemotes, TRUE, last_only, NoArt, NoFault)
            = sync_remotes(StOf(Now), remote, RemoteOrder, TRUE, last_only, NoArt, NoFault)

\* C38: in every state, for every bundle of the Catalog, the remote a get of
\* one of its partitions fetches from is the remote the caller gave, when one
\* was given, and else the first remote of the library that is the source of
\* a bundle record of the bundle.  The code sets the remote to None when the
\* bundle has no record (line 454), whatever the caller gave.
C38_CallerRemoteIsKept ==
    \A b \in Range(datasets) : \A rarg \in Remotes \cup {NoRemote} :
        GetRemote(files, b, rarg) =
            (IF rarg # NoRemote THEN rarg
             ELSE FirstRemote(RemoteOrder,
                              {f.source : f \in {g \in files : g.type = TypeBundle
                                                                /\ g.ref = b}}))

\* the keys of the dependencies that fail: the ref does not resolve, or, when
\* it is to be downloaded, a get of it raises
FailingKeys(deps, download) ==
    {k \in DOMAIN deps :
        \/ resolve(datasets, deps[k]) = NotResolved
        \/ download /\ get(StOf(Now), remote, deps[k], NoRemote, NoFault, FALSE).res # Ok}

\* C39: in every state and for every dependency map, check_dependencies with
\* throw false returns, with download as without, the map of exactly the
\* keys that fail, and with throw true raises NotFoundError when a key fails.
\* The code raises what _get_dependencies and get raise.
C39_CheckDependenciesReportsFailures ==
    \A deps \in Dependencies : \A download \in BOOLEAN :
        LET quiet == check_dependencies(StOf(Now), remote, deps, FALSE, download)
            loud == check_dependencies(StOf(Now), remote, deps, TRUE, download)
            failing == FailingKeys(deps, download)
        IN /\ quiet.res = Ok /\ quiet.errors = failing
           /\ loud.res = (IF failing = {} THEN Ok ELSE NotFound)

\* the documents of the vid the index holds once the writer has committed
Held(ix, a) == commit(ix).docs[a]

\* C40: in every state of a Library with a doc_cache, the search index holds
\* at most one document of each vid, before a commit and after it.
\* index_partition with force deletes nothing before it adds (lines 215-222),
\* so the code does not.
C40_OneDocumentPerVid ==
    \A a \in Indexed : index.docs[a] <= 1 /\ Held(index, a) <= 1

====
